---- MODULE Spec2Model ----
(***************************************************************************)
(* A model of the GeoJSON decode/encode engine: the field extractors and   *)
(* coordinate decoders of src/src/util.rs and the top-level dispatch of    *)
(* src/src/geojson.rs.  The engine is a set of pure functions over an      *)
(* owned JSON tree; each action of the state machine is one call of an     *)
(* entry point on an input drawn from a bounded set, followed by Return.   *)
(***************************************************************************)
EXTENDS Integers, Sequences, FiniteSets, TLC

VARIABLES pc, op, input, result, calls

vars == <<pc, op, input, result, calls>>

(***************************************************************************)
(* Bounds of the model.                                                    *)
(***************************************************************************)
\* longest array handed to a sequence decoder (coordinates, geometries,
\* features, bbox)
MaxLen == 2
\* longest token sequence of the exhaustively enumerated input texts
MaxTextLen == 3

(***************************************************************************)
(* JSON values (serde_json::Value).  Every kind has its own payload field, *)
(* so two values of different kinds are different records.  A number keeps *)
(* whether it was written as an integer or as a float (serde_json::Number) *)
(* and an f64 is modelled by the integer it equals.                        *)
(***************************************************************************)
JNull == [t |-> "null"]

JBool(b) == [t |-> "bool", b |-> b]

JInt(n) == [t |-> "num", f |-> FALSE, n |-> n]

JFloat(x) == [t |-> "num", f |-> TRUE, n |-> x]

JStr(s) == [t |-> "str", s |-> s]

JArr(a) == [t |-> "arr", a |-> a]

JObj(o) == [t |-> "obj", o |-> o]

\* JsonValue::as_f64: Some(x) for a number of either form, None otherwise
as_f64(value) == IF value.t = "num" THEN [some |-> TRUE, x |-> value.n] ELSE [some |-> FALSE]

\* JsonValue::as_array
as_array(value) == IF value.t = "arr" THEN [some |-> TRUE, x |-> value.a] ELSE [some |-> FALSE]

\* JsonObject (serde_json::Map): a function from its keys to their values
EmptyMap == [k \in {} |-> JNull]

MapRemove(o, name) == [k \in (DOMAIN o) \ {name} |-> o[k]]

MapInsert(o, name, value) == [k \in (DOMAIN o) \cup {name} |-> IF k = name THEN value ELSE o[k]]

MapGet(o, name) == IF name \in DOMAIN o THEN [some |-> TRUE, x |-> o[name]] ELSE [some |-> FALSE]

(***************************************************************************)
(* Option and Result.  A function taking `&mut JsonObject` also returns    *)
(* the object as the call leaves it (field obj).                           *)
(***************************************************************************)
None == [some |-> FALSE]

Some(x) == [some |-> TRUE, x |-> x]

POk(v) == [ok |-> TRUE, v |-> v]

PErr(e) == [ok |-> FALSE, e |-> e]

Ok(v, o) == [ok |-> TRUE, v |-> v, obj |-> o]

Err(e, o) == [ok |-> FALSE, e |-> e, obj |-> o]

\* Error variants without payload, and Error::ExpectedProperty(name)
E(kind) == [kind |-> kind]

ExpectedProperty(name) == [kind |-> "ExpectedProperty", name |-> name]

(***************************************************************************)
(* src/src/util.rs: the expect_* helpers                                   *)
(***************************************************************************)
expect_string(value) ==
    IF value.t = "str" THEN POk(value.s) ELSE PErr(E("ExpectedStringValue"))

expect_f64(value) ==
    LET r == as_f64(value)
    IN  IF r.some THEN POk(r.x) ELSE PErr(E("ExpectedF64Value"))

expect_array(value) ==
    LET r == as_array(value)
    IN  IF r.some THEN POk(r.x) ELSE PErr(E("ExpectedArrayValue"))

expect_property(obj, name) ==
    IF name \in DOMAIN obj
    THEN Ok(obj[name], MapRemove(obj, name))
    ELSE Err(ExpectedProperty(name), obj)

expect_type(value) ==
    LET prop == expect_property(value, "type")
    IN  IF ~prop.ok THEN prop
        ELSE LET s == expect_string(prop.v)
             IN  IF s.ok THEN Ok(s.v, prop.obj) ELSE Err(s.e, prop.obj)

expect_owned_array(value) ==
    IF value.t = "arr" THEN POk(value.a) ELSE PErr(E("ExpectedArrayValue"))

expect_owned_object(value) ==
    IF value.t = "obj" THEN POk(value.o) ELSE PErr(E("ExpectedObjectValue"))

get_coords_value(object) == expect_property(object, "coordinates")

(***************************************************************************)
(* src/src/util.rs: bbox, foreign members, properties, id                  *)
(***************************************************************************)
\* variant: non-numeric elements are skipped (filter_map for map)
RECURSIVE bbox_collect_skipping(_, _, _)
bbox_collect_skipping(a, i, acc) ==
    IF i > Len(a) THEN POk(acc)
    ELSE LET x == as_f64(a[i])
         IN  bbox_collect_skipping(a, i + 1, IF x.some THEN Append(acc, x.x) ELSE acc)

\* `.map(|i| i.as_f64().ok_or(..)).collect::<Result<Vec<_>, _>>()`: the
\* elements are converted in order and the first failure ends the collect
RECURSIVE bbox_collect(_, _, _)
bbox_collect(a, i, acc) ==
    IF i > Len(a) THEN POk(acc)
    ELSE LET x == as_f64(a[i])
         IN  IF ~x.some THEN PErr(E("BboxExpectedNumericValues"))
             ELSE bbox_collect(a, i + 1, Append(acc, x.x))

get_bbox(object) ==
    IF "bbox" \notin DOMAIN object THEN Ok(None, object)
    ELSE LET bbox_json == object["bbox"]
             rest == MapRemove(object, "bbox")
         IN  IF bbox_json.t # "arr" THEN Err(E("BboxExpectedArray"), rest)
             ELSE LET bbox == bbox_collect(bbox_json.a, 1, <<>>)
                  IN  IF bbox.ok THEN Ok(Some(bbox.v), rest) ELSE Err(bbox.e, rest)

\* variant: the residual object is attached even when it is empty
get_foreign_members_always_some(object) == POk(Some(object))

get_foreign_members(object) ==
    IF DOMAIN object = {} THEN POk(None) ELSE POk(Some(object))

\* variant: an absent `properties` key is taken for null
get_properties_optional_key(object) ==
    IF "properties" \notin DOMAIN object THEN Ok(None, object)
    ELSE LET v == object["properties"]
             rest == MapRemove(object, "properties")
         IN  IF v.t = "obj" THEN Ok(Some(v.o), rest)
             ELSE IF v.t = "null" THEN Ok(None, rest)
             ELSE Err(E("PropertiesExpectedObjectOrNull"), rest)

get_properties(object) ==
    LET properties == expect_property(object, "properties")
    IN  IF ~properties.ok THEN properties
        ELSE IF properties.v.t = "obj" THEN Ok(Some(properties.v.o), properties.obj)
        ELSE IF properties.v.t = "null" THEN Ok(None, properties.obj)
        ELSE Err(E("PropertiesExpectedObjectOrNull"), properties.obj)

\* variant: a numeric id is kept as the f64 it converts to
get_id_as_f64(object) ==
    IF "id" \notin DOMAIN object THEN Ok(None, object)
    ELSE LET x == object["id"]
             rest == MapRemove(object, "id")
         IN  IF x.t = "num" THEN Ok(Some([id |-> "Number", n |-> JFloat(x.n)]), rest)
             ELSE IF x.t = "str" THEN Ok(Some([id |-> "String", s |-> x.s]), rest)
             ELSE Err(E("FeatureInvalidIdentifierType"), rest)

\* feature::Id::Number keeps the JSON number, Id::String the string
get_id(object) ==
    IF "id" \notin DOMAIN object THEN Ok(None, object)
    ELSE LET x == object["id"]
             rest == MapRemove(object, "id")
         IN  IF x.t = "num" THEN Ok(Some([id |-> "Number", n |-> x]), rest)
             ELSE IF x.t = "str" THEN Ok(Some([id |-> "String", s |-> x.s]), rest)
             ELSE Err(E("FeatureInvalidIdentifierType"), rest)

(***************************************************************************)
(* The Position codec (Position::from_json_value for Vec<f64>): a JSON     *)
(* array of numbers becomes the sequence of its components, in order.      *)
(***************************************************************************)
RECURSIVE Position_collect(_, _, _)
Position_collect(a, i, acc) ==
    IF i > Len(a) THEN POk(acc)
    ELSE LET x == expect_f64(a[i])
         IN  IF ~x.ok THEN x ELSE Position_collect(a, i + 1, Append(acc, x.v))

Position_from_json_value(json) ==
    LET coords_array == expect_array(json)
    IN  IF ~coords_array.ok THEN coords_array
        ELSE Position_collect(coords_array.v, 1, <<>>)

(***************************************************************************)
(* src/src/util.rs: the nested coordinate decoders.  Each `for` loop is a  *)
(* recursion on the index of the next item with the Vec built so far.      *)
(***************************************************************************)
RECURSIVE json_to_1d_loop(_, _, _)
json_to_1d_loop(coords_array, i, coords) ==
    IF i > Len(coords_array) THEN POk(coords)
    ELSE LET item == Position_from_json_value(coords_array[i])
         IN  IF ~item.ok THEN item
             ELSE json_to_1d_loop(coords_array, i + 1, Append(coords, item.v))

json_to_1d_positions(json) ==
    LET coords_array == expect_array(json)
    IN  IF ~coords_array.ok THEN coords_array
        ELSE json_to_1d_loop(coords_array.v, 1, <<>>)

RECURSIVE json_to_2d_loop(_, _, _)
json_to_2d_loop(coords_array, i, coords) ==
    IF i > Len(coords_array) THEN POk(coords)
    ELSE LET item == json_to_1d_positions(coords_array[i])
         IN  IF ~item.ok THEN item
             ELSE json_to_2d_loop(coords_array, i + 1, Append(coords, item.v))

\* variant: the elements are decoded as positions, one level short
json_to_2d_positions_one_level_short(json) ==
    LET coords_array == expect_array(json)
    IN  IF ~coords_array.ok THEN coords_array
        ELSE json_to_1d_loop(coords_array.v, 1, <<>>)

json_to_2d_positions(json) ==
    LET coords_array == expect_array(json)
    IN  IF ~coords_array.ok THEN coords_array
        ELSE json_to_2d_loop(coords_array.v, 1, <<>>)

RECURSIVE json_to_3d_loop(_, _, _)
json_to_3d_loop(coords_array, i, coords) ==
    IF i > Len(coords_array) THEN POk(coords)
    ELSE LET item == json_to_2d_positions(coords_array[i])
         IN  IF ~item.ok THEN item
             ELSE json_to_3d_loop(coords_array, i + 1, Append(coords, item.v))

json_to_3d_positions(json) ==
    LET coords_array == expect_array(json)
    IN  IF ~coords_array.ok THEN coords_array
        ELSE json_to_3d_loop(coords_array.v, 1, <<>>)

\* `let coords_json = get_coords_value(object)?; <decoder>(&coords_json)`
get_coords_one_pos(object) ==
    LET coords_json == get_coords_value(object)
    IN  IF ~coords_json.ok THEN coords_json
        ELSE LET r == Position_from_json_value(coords_json.v)
             IN  IF r.ok THEN Ok(r.v, coords_json.obj) ELSE Err(r.e, coords_json.obj)

get_coords_1d_pos(object) ==
    LET coords_json == get_coords_value(object)
    IN  IF ~coords_json.ok THEN coords_json
        ELSE LET r == json_to_1d_positions(coords_json.v)
             IN  IF r.ok THEN Ok(r.v, coords_json.obj) ELSE Err(r.e, coords_json.obj)

get_coords_2d_pos(object) ==
    LET coords_json == get_coords_value(object)
    IN  IF ~coords_json.ok THEN coords_json
        ELSE LET r == json_to_2d_positions(coords_json.v)
             IN  IF r.ok THEN Ok(r.v, coords_json.obj) ELSE Err(r.e, coords_json.obj)

get_coords_3d_pos(object) ==
    LET coords_json == get_coords_value(object)
    IN  IF ~coords_json.ok THEN coords_json
        ELSE LET r == json_to_3d_positions(coords_json.v)
             IN  IF r.ok THEN Ok(r.v, coords_json.obj) ELSE Err(r.e, coords_json.obj)

(***************************************************************************)
(* Typed model.  A Geometry is [bbox, value, foreign_members]; its value   *)
(* carries the tag and a payload field named after the nesting depth of    *)
(* its coordinates (p0 .. p3) or `geometries`.                             *)
(***************************************************************************)
GeometryTags == {"Point", "MultiPoint", "LineString", "MultiLineString",
                 "Polygon", "MultiPolygon", "GeometryCollection"}

RECURSIVE Geometry_from_json_object(_)
RECURSIVE get_geometries_loop(_, _, _)

\* variant: the array is consumed from its end
RECURSIVE get_geometries_loop_from_end(_, _, _)
get_geometries_loop_from_end(geometries_array, i, geometries) ==
    IF i > Len(geometries_array) THEN POk(geometries)
    ELSE LET obj == expect_owned_object(geometries_array[Len(geometries_array) + 1 - i])
         IN  IF ~obj.ok THEN obj
             ELSE LET geometry == Geometry_from_json_object(obj.v)
                  IN  IF ~geometry.ok THEN geometry
                      ELSE get_geometries_loop_from_end(geometries_array, i + 1,
                                                        <<geometry.v>> \o geometries)

\* util.rs get_geometries: the loop over the owned array
get_geometries_loop(geometries_array, i, geometries) ==
    IF i > Len(geometries_array) THEN POk(geometries)
    ELSE LET obj == expect_owned_object(geometries_array[i])
         IN  IF ~obj.ok THEN obj
             ELSE LET geometry == Geometry_from_json_object(obj.v)
                  IN  IF ~geometry.ok THEN geometry
                      ELSE get_geometries_loop(geometries_array, i + 1,
                                               Append(geometries, geometry.v))

get_geometries(object) ==
    LET geometries_json == expect_property(object, "geometries")
    IN  IF ~geometries_json.ok THEN geometries_json
        ELSE LET geometries_array == expect_owned_array(geometries_json.v)
             IN  IF ~geometries_array.ok
                 THEN Err(geometries_array.e, geometries_json.obj)
                 ELSE LET r == get_geometries_loop(geometries_array.v, 1, <<>>)
                      IN  IF r.ok THEN Ok(r.v, geometries_json.obj)
                          ELSE Err(r.e, geometries_json.obj)

\* The Geometry decoder's payload step: the tag selects the coordinate
\* decoder of the matching depth, or get_geometries
Geometry_value(tag, object) ==
    CASE tag = "Point" ->
           LET c == get_coords_one_pos(object)
           IN  IF c.ok THEN Ok([type |-> tag, p0 |-> c.v], c.obj) ELSE c
      [] tag \in {"MultiPoint", "LineString"} ->
           LET c == get_coords_1d_pos(object)
           IN  IF c.ok THEN Ok([type |-> tag, p1 |-> c.v], c.obj) ELSE c
      [] tag \in {"MultiLineString", "Polygon"} ->
           LET c == get_coords_2d_pos(object)
           IN  IF c.ok THEN Ok([type |-> tag, p2 |-> c.v], c.obj) ELSE c
      [] tag = "MultiPolygon" ->
           LET c == get_coords_3d_pos(object)
           IN  IF c.ok THEN Ok([type |-> tag, p3 |-> c.v], c.obj) ELSE c
      [] tag = "GeometryCollection" ->
           LET c == get_geometries(object)
           IN  IF c.ok THEN Ok([type |-> tag, geometries |-> c.v], c.obj) ELSE c
      [] OTHER -> Err(E("UnknownType"), object)

\* The Geometry decoder: type tag, payload, bbox, then the residual keys
Geometry_from_json_object(object) ==
    LET ty == expect_type(object)
    IN  IF ~ty.ok THEN PErr(ty.e)
        ELSE LET value == Geometry_value(ty.v, ty.obj)
             IN  IF ~value.ok THEN PErr(value.e)
                 ELSE LET bbox == get_bbox(value.obj)
                      IN  IF ~bbox.ok THEN PErr(bbox.e)
                          ELSE POk([bbox |-> bbox.v, value |-> value.v,
                                    foreign_members |-> get_foreign_members(bbox.obj).v])

\* variant: an absent `geometry` key is taken for null
get_geometry_optional_key(object) ==
    IF "geometry" \notin DOMAIN object THEN Ok(None, object)
    ELSE LET v == object["geometry"]
             rest == MapRemove(object, "geometry")
         IN  IF v.t = "obj"
             THEN LET geometry_object == Geometry_from_json_object(v.o)
                  IN  IF geometry_object.ok THEN Ok(Some(geometry_object.v), rest)
                      ELSE Err(geometry_object.e, rest)
             ELSE IF v.t = "null" THEN Ok(None, rest)
             ELSE Err(E("FeatureInvalidGeometryValue"), rest)

\* util.rs get_geometry
get_geometry(object) ==
    LET geometry == expect_property(object, "geometry")
    IN  IF ~geometry.ok THEN geometry
        ELSE IF geometry.v.t = "obj"
             THEN LET geometry_object == Geometry_from_json_object(geometry.v.o)
                  IN  IF geometry_object.ok
                      THEN Ok(Some(geometry_object.v), geometry.obj)
                      ELSE Err(geometry_object.e, geometry.obj)
        ELSE IF geometry.v.t = "null" THEN Ok(None, geometry.obj)
        ELSE Err(E("FeatureInvalidGeometryValue"), geometry.obj)

\* The Feature decoder: type tag, id, properties, geometry, bbox, residue
Feature_from_json_object(object) ==
    LET ty == expect_type(object)
    IN  IF ~ty.ok THEN PErr(ty.e)
        ELSE IF ty.v # "Feature" THEN PErr(E("UnknownType"))
        ELSE LET id == get_id(ty.obj)
             IN  IF ~id.ok THEN PErr(id.e)
                 ELSE LET properties == get_properties(id.obj)
                      IN  IF ~properties.ok THEN PErr(properties.e)
                          ELSE LET geometry == get_geometry(properties.obj)
                               IN  IF ~geometry.ok THEN PErr(geometry.e)
                                   ELSE LET bbox == get_bbox(geometry.obj)
                                        IN  IF ~bbox.ok THEN PErr(bbox.e)
                                            ELSE POk([bbox |-> bbox.v,
                                                      geometry |-> geometry.v,
                                                      id |-> id.v,
                                                      properties |-> properties.v,
                                                      foreign_members |->
                                                        get_foreign_members(bbox.obj).v])

\* util.rs get_features
RECURSIVE get_features_loop(_, _, _)
get_features_loop(features_json, i, features) ==
    IF i > Len(features_json) THEN POk(features)
    ELSE LET obj == expect_owned_object(features_json[i])
         IN  IF ~obj.ok THEN obj
             ELSE LET feature == Feature_from_json_object(obj.v)
                  IN  IF ~feature.ok THEN feature
                      ELSE get_features_loop(features_json, i + 1,
                                             Append(features, feature.v))

get_features(object) ==
    LET prop == expect_property(object, "features")
    IN  IF ~prop.ok THEN prop
        ELSE LET features_json == expect_owned_array(prop.v)
             IN  IF ~features_json.ok THEN Err(features_json.e, prop.obj)
                 ELSE LET r == get_features_loop(features_json.v, 1, <<>>)
                      IN  IF r.ok THEN Ok(r.v, prop.obj) ELSE Err(r.e, prop.obj)

\* The FeatureCollection decoder: type tag, features, bbox, residue
FeatureCollection_from_json_object(object) ==
    LET ty == expect_type(object)
    IN  IF ~ty.ok THEN PErr(ty.e)
        ELSE IF ty.v # "FeatureCollection" THEN PErr(E("UnknownType"))
        ELSE LET features == get_features(ty.obj)
             IN  IF ~features.ok THEN PErr(features.e)
                 ELSE LET bbox == get_bbox(features.obj)
                      IN  IF ~bbox.ok THEN PErr(bbox.e)
                          ELSE POk([bbox |-> bbox.v, features |-> features.v,
                                    foreign_members |-> get_foreign_members(bbox.obj).v])

(***************************************************************************)
(* src/src/geojson.rs: the type tag and the top-level dispatch             *)
(***************************************************************************)
\* Type::from_str: an exact, case-sensitive match of the nine tags
Type_from_str(s) ==
    CASE s = "Point" -> Some("Point")
      [] s = "MultiPoint" -> Some("MultiPoint")
      [] s = "LineString" -> Some("LineString")
      [] s = "MultiLineString" -> Some("MultiLineString")
      [] s = "Polygon" -> Some("Polygon")
      [] s = "MultiPolygon" -> Some("MultiPolygon")
      [] s = "GeometryCollection" -> Some("GeometryCollection")
      [] s = "Feature" -> Some("Feature")
      [] s = "FeatureCollection" -> Some("FeatureCollection")
      [] OTHER -> None

\* variant: a `type` that is not a string is reported as by expect_string
read_type_expecting_string(object) ==
    LET got == MapGet(object, "type")
    IN  IF ~got.some THEN PErr(ExpectedProperty("type"))
        ELSE IF got.x.t # "str" THEN PErr(E("ExpectedStringValue"))
        ELSE LET type_ == Type_from_str(got.x.s)
             IN  IF type_.some THEN POk(type_.x) ELSE PErr(E("GeoJsonUnknownType"))

\* `match object.get("type") { Some(String(t)) => Type::from_str(t), _ =>
\* return Err(ExpectedProperty("type")) }` and `.ok_or(GeoJsonUnknownType)?`
read_type(object) ==
    LET got == MapGet(object, "type")
    IN  IF got.some /\ got.x.t = "str"
        THEN LET type_ == Type_from_str(got.x.s)
             IN  IF type_.some THEN POk(type_.x) ELSE PErr(E("GeoJsonUnknownType"))
        ELSE PErr(ExpectedProperty("type"))

\* variant: the tag is taken out of the object before it is handed on
route_without_type(type_, object) ==
    CASE type_ = "Feature" -> [decoder |-> "Feature", arg |-> MapRemove(object, "type")]
      [] type_ = "FeatureCollection" ->
           [decoder |-> "FeatureCollection", arg |-> MapRemove(object, "type")]
      [] OTHER -> [decoder |-> "Geometry", arg |-> MapRemove(object, "type")]

\* `match type_ { .. }`: the decoder chosen and the object handed to it
route(type_, object) ==
    CASE type_ = "Feature" -> [decoder |-> "Feature", arg |-> object]
      [] type_ = "FeatureCollection" -> [decoder |-> "FeatureCollection", arg |-> object]
      [] OTHER -> [decoder |-> "Geometry", arg |-> object]

\* the three `try_from(object)` calls of the match arms
decode_with(call) ==
    CASE call.decoder = "Feature" -> Feature_from_json_object(call.arg)
      [] call.decoder = "FeatureCollection" -> FeatureCollection_from_json_object(call.arg)
      [] OTHER -> Geometry_from_json_object(call.arg)

\* the decoders invoked by a dispatch of `object`, in order
dispatch_calls(object) ==
    LET type_ == read_type(object)
    IN  IF type_.ok THEN <<route(type_.v, object)>> ELSE <<>>

\* GeoJsonBase::from_json_object; `.map(GeoJsonBase::X)` wraps the decoded
\* object in the variant of the arm
from_json_object(object) ==
    LET type_ == read_type(object)
    IN  IF ~type_.ok THEN type_
        ELSE LET call == route(type_.v, object)
                 r == decode_with(call)
             IN  IF r.ok THEN POk([kind |-> call.decoder, x |-> r.v]) ELSE r

\* TryFrom<JsonObject> for GeoJson: the same body for Pos = Vec<f64>
try_from_object(object) ==
    LET type_ == read_type(object)
    IN  IF ~type_.ok THEN type_
        ELSE LET call == route(type_.v, object)
                 r == decode_with(call)
             IN  IF r.ok THEN POk([kind |-> call.decoder, x |-> r.v]) ELSE r

\* TryFrom<JsonValue> for GeoJson (and GeoJson::from_json_value)
try_from_value(value) ==
    IF value.t = "obj" THEN try_from_object(value.o)
    ELSE PErr(E("GeoJsonExpectedObject"))

(***************************************************************************)
(* serde_json::from_str on a text given as its sequence of tokens: a       *)
(* recursive-descent parse that accepts exactly one JSON value.            *)
(***************************************************************************)
NumTokens == {"1", "2", "2.0"}

StrTokens == {"'type'", "'Point'", "'Feature'", "'coordinates'", "'geometry'",
              "'properties'"}

NumOf(tok) ==
    CASE tok = "1" -> JInt(1)
      [] tok = "2" -> JInt(2)
      [] OTHER -> JFloat(2)

StrOf(tok) ==
    CASE tok = "'type'" -> "type"
      [] tok = "'Point'" -> "Point"
      [] tok = "'Feature'" -> "Feature"
      [] tok = "'coordinates'" -> "coordinates"
      [] tok = "'geometry'" -> "geometry"
      [] OTHER -> "properties"

NoParse == [ok |-> FALSE]

Parsed(v, next) == [ok |-> TRUE, v |-> v, next |-> next]

TokAt(toks, i) == IF i <= Len(toks) THEN toks[i] ELSE "<eof>"

RECURSIVE ParseValue(_, _)
RECURSIVE ParseElems(_, _, _)
RECURSIVE ParseMembers(_, _, _)

ParseValue(toks, i) ==
    LET tok == TokAt(toks, i)
    IN  CASE tok = "null" -> Parsed(JNull, i + 1)
          [] tok = "true" -> Parsed(JBool(TRUE), i + 1)
          [] tok \in NumTokens -> Parsed(NumOf(tok), i + 1)
          [] tok \in StrTokens -> Parsed(JStr(StrOf(tok)), i + 1)
          [] tok = "[" -> IF TokAt(toks, i + 1) = "]" THEN Parsed(JArr(<<>>), i + 2)
                          ELSE ParseElems(toks, i + 1, <<>>)
          [] tok = "{" -> IF TokAt(toks, i + 1) = "}" THEN Parsed(JObj(EmptyMap), i + 2)
                          ELSE ParseMembers(toks, i + 1, EmptyMap)
          [] OTHER -> NoParse

ParseElems(toks, i, acc) ==
    LET v == ParseValue(toks, i)
    IN  IF ~v.ok THEN NoParse
        ELSE IF TokAt(toks, v.next) = "," THEN ParseElems(toks, v.next + 1, Append(acc, v.v))
        ELSE IF TokAt(toks, v.next) = "]" THEN Parsed(JArr(Append(acc, v.v)), v.next + 1)
        ELSE NoParse

ParseMembers(toks, i, acc) ==
    IF TokAt(toks, i) \notin StrTokens \/ TokAt(toks, i + 1) # ":" THEN NoParse
    ELSE LET v == ParseValue(toks, i + 2)
         IN  IF ~v.ok THEN NoParse
             ELSE LET m == MapInsert(acc, StrOf(toks[i]), v.v)
                  IN  IF TokAt(toks, v.next) = "," THEN ParseMembers(toks, v.next + 1, m)
                      ELSE IF TokAt(toks, v.next) = "}" THEN Parsed(JObj(m), v.next + 1)
                      ELSE NoParse

serde_json_from_str(s) ==
    LET r == ParseValue(s, 1)
    IN  IF r.ok /\ r.next = Len(s) + 1 THEN POk(r.v) ELSE PErr(E("SerdeError"))

(***************************************************************************)
(* src/src/geojson.rs: decoding from text                                  *)
(***************************************************************************)
json_value_into_json_object(json_value) ==
    IF json_value.t = "obj" THEN Some(json_value.o) ELSE None

\* `from_str(s).ok().and_then(json_value_into_json_object).ok_or(MalformedJson)`
get_object(s) ==
    LET parsed == serde_json_from_str(s)
        geo == IF parsed.ok THEN json_value_into_json_object(parsed.v) ELSE None
    IN  IF geo.some THEN POk(geo.x) ELSE PErr(E("MalformedJson"))

\* FromStr for GeoJsonBase
from_str(s) ==
    LET object == get_object(s)
    IN  IF ~object.ok THEN object ELSE from_json_object(object.v)

(***************************************************************************)
(* Encoding: `type`, the payload key of the variant, `bbox` when present,  *)
(* then the foreign members spliced in as further keys.                    *)
(***************************************************************************)
Position_to_json(p) == JArr([i \in 1..Len(p) |-> JFloat(p[i])])

Positions1d_to_json(ps) == JArr([i \in 1..Len(ps) |-> Position_to_json(ps[i])])

Positions2d_to_json(ps) == JArr([i \in 1..Len(ps) |-> Positions1d_to_json(ps[i])])

Positions3d_to_json(ps) == JArr([i \in 1..Len(ps) |-> Positions2d_to_json(ps[i])])

RECURSIVE splice(_, _)
splice(map, members) ==
    IF DOMAIN members = {} THEN map
    ELSE LET k == CHOOSE x \in DOMAIN members : TRUE
         IN  splice(MapInsert(map, k, members[k]), MapRemove(members, k))

with_bbox(map, bbox) ==
    IF bbox.some THEN MapInsert(map, "bbox", JArr([i \in 1..Len(bbox.x) |-> JFloat(bbox.x[i])]))
    ELSE map

with_foreign_members(map, foreign_members) ==
    IF foreign_members.some THEN splice(map, foreign_members.x) ELSE map

RECURSIVE Geometry_to_json_object(_)
Geometry_to_json_object(geometry) ==
    LET value == geometry.value
        tagged == MapInsert(EmptyMap, "type", JStr(value.type))
        payload ==
          CASE value.type = "Point" ->
                 MapInsert(tagged, "coordinates", Position_to_json(value.p0))
            [] value.type \in {"MultiPoint", "LineString"} ->
                 MapInsert(tagged, "coordinates", Positions1d_to_json(value.p1))
            [] value.type \in {"MultiLineString", "Polygon"} ->
                 MapInsert(tagged, "coordinates", Positions2d_to_json(value.p2))
            [] value.type = "MultiPolygon" ->
                 MapInsert(tagged, "coordinates", Positions3d_to_json(value.p3))
            [] OTHER ->
                 MapInsert(tagged, "geometries",
                           JArr([i \in 1..Len(value.geometries) |->
                                   JObj(Geometry_to_json_object(value.geometries[i]))]))
    IN  with_foreign_members(with_bbox(payload, geometry.bbox), geometry.foreign_members)

id_to_json(id) == IF id.id = "Number" THEN id.n ELSE JStr(id.s)

\* `geometry` and `properties` are always written, as null when absent
Feature_to_json_object(feature) ==
    LET tagged == MapInsert(EmptyMap, "type", JStr("Feature"))
        g == MapInsert(tagged, "geometry",
                       IF feature.geometry.some
                       THEN JObj(Geometry_to_json_object(feature.geometry.x))
                       ELSE JNull)
        pr == MapInsert(g, "properties",
                        IF feature.properties.some THEN JObj(feature.properties.x)
                        ELSE JNull)
        withid == IF feature.id.some THEN MapInsert(pr, "id", id_to_json(feature.id.x))
                  ELSE pr
    IN  with_foreign_members(with_bbox(withid, feature.bbox), feature.foreign_members)

FeatureCollection_to_json_object(fc) ==
    LET tagged == MapInsert(EmptyMap, "type", JStr("FeatureCollection"))
        fs == MapInsert(tagged, "features",
                        JArr([i \in 1..Len(fc.features) |->
                                JObj(Feature_to_json_object(fc.features[i]))]))
    IN  with_foreign_members(with_bbox(fs, fc.bbox), fc.foreign_members)

\* From<&GeoJson> for JsonObject
GeoJson_to_json_object(geojson) ==
    CASE geojson.kind = "Geometry" -> Geometry_to_json_object(geojson.x)
      [] geojson.kind = "Feature" -> Feature_to_json_object(geojson.x)
      [] OTHER -> FeatureCollection_to_json_object(geojson.x)

(***************************************************************************)
(* Inputs.  Arrays handed to a sequence decoder are all sequences of at    *)
(* most MaxLen elements over a set of candidate elements that holds valid  *)
(* elements and one element for each way of being invalid.                 *)
(***************************************************************************)
SeqsUpTo(S, n) == UNION {[1..k -> S] : k \in 0..n}

P12 == JArr(<<JInt(1), JFloat(2)>>)

P21 == JArr(<<JInt(2), JInt(1)>>)

\* position candidates: valid, empty, a non-array, too deep, a non-number
PosCands == {P12, P21, JArr(<<>>), JInt(5), JArr(<<JArr(<<JInt(1)>>)>>),
             JArr(<<JInt(1), JStr("s")>>)}

Coords1d == {JArr(a) : a \in SeqsUpTo(PosCands, MaxLen)} \cup {JInt(5), JNull}

Rep1 == {JArr(a) : a \in SeqsUpTo(PosCands, 1)} \cup {JInt(5), P12, JArr(<<P12, P21>>)}

Coords2d == {JArr(a) : a \in SeqsUpTo(Rep1, MaxLen)} \cup {JInt(5), JNull}

Rep2 == {JArr(a) : a \in SeqsUpTo(Rep1, 1)} \cup {JInt(5), P12}

Coords3d == {JArr(a) : a \in SeqsUpTo(Rep2, MaxLen)} \cup {JInt(5), JNull}

Line12 == JArr(<<P12, P21>>)

PointObj == [type |-> JStr("Point"), coordinates |-> P12]

LineObj == [type |-> JStr("LineString"), coordinates |-> Line12]

\* candidate elements of a `geometries` array
GeomElems ==
    { JObj(PointObj),
      JObj(LineObj),
      JObj([type |-> JStr("Point"), coordinates |-> P21,
            bbox |-> JArr(<<JInt(1), JInt(2), JInt(1)>>), custom |-> JInt(1)]),
      JObj([type |-> JStr("Point")]),
      JObj([type |-> JStr("Point"), coordinates |-> JInt(5)]),
      JObj([type |-> JStr("Circle"), coordinates |-> P12]),
      JInt(5),
      JObj([type |-> JStr("GeometryCollection"), geometries |-> JArr(<<JObj(PointObj)>>)]),
      JObj([type |-> JStr("GeometryCollection"),
            geometries |-> JArr(<<JObj([type |-> JInt(1), coordinates |-> P12])>>)]),
      JObj([type |-> JStr("Point"), coordinates |-> P12, bbox |-> JStr("s")]) }

GeometriesObjects ==
    {[geometries |-> JArr(a)] : a \in SeqsUpTo(GeomElems, MaxLen)}
    \cup { EmptyMap,
           [geometries |-> JInt(5)],
           [geometries |-> JObj(PointObj)],
           [geometries |-> JArr(<<JObj(PointObj)>>), custom |-> JInt(1)] }

Feature1 == [type |-> JStr("Feature"), properties |-> JNull, geometry |-> JNull]

Feature2 == [type |-> JStr("Feature"), properties |-> JObj(EmptyMap),
             geometry |-> JObj(PointObj), id |-> JInt(7)]

Feature3 == [type |-> JStr("Feature"), properties |-> JObj([a |-> JInt(1)]),
             geometry |-> JObj(LineObj), id |-> JStr("a"),
             bbox |-> JArr(<<JInt(1), JFloat(2)>>), custom |-> JInt(1)]

\* candidate elements of a `features` array
FeatureElems ==
    { JObj(Feature1), JObj(Feature2), JObj(Feature3),
      JObj([type |-> JStr("Feature"), geometry |-> JNull]),
      JObj([type |-> JStr("Feature"), properties |-> JInt(1), geometry |-> JNull]),
      JObj([type |-> JStr("Feature"), properties |-> JNull]),
      JObj([type |-> JStr("Feature"), properties |-> JNull, geometry |-> JArr(<<>>)]),
      JObj([type |-> JStr("Feature"), properties |-> JNull,
            geometry |-> JObj([type |-> JStr("Circle")])]),
      JObj([type |-> JStr("Feature"), properties |-> JNull, geometry |-> JNull,
            id |-> JBool(TRUE)]),
      JInt(5),
      JObj([properties |-> JNull, geometry |-> JNull]) }

FeaturesObjects ==
    {[features |-> JArr(a)] : a \in SeqsUpTo(FeatureElems, MaxLen)}
    \cup { EmptyMap,
           [features |-> JInt(5)],
           [features |-> JObj(Feature1)],
           [features |-> JArr(<<JObj(Feature1)>>), custom |-> JInt(1)] }

\* further keys an object may carry beside the one an extractor reads
OtherKeys == {EmptyMap, [custom |-> JInt(1)], [custom |-> JInt(1), extra |-> JStr("x")]}

With(o, more) == [k \in (DOMAIN o) \cup (DOMAIN more) |-> IF k \in DOMAIN o THEN o[k] ELSE more[k]]

TypeValues == {JStr("Point"), JStr("Feature"), JStr("Circle"), JStr(""), JInt(1), JNull,
               JBool(TRUE), JArr(<<JStr("Point")>>), JObj([type |-> JStr("Point")])}

TypeObjects ==
    {With(more, [coordinates |-> P12]) : more \in OtherKeys}
    \cup {With([type |-> v, coordinates |-> P12], more) : v \in TypeValues, more \in OtherKeys}

BboxElems == {JInt(1), JFloat(2), JStr("s"), JNull}

BboxValues == {JArr(a) : a \in SeqsUpTo(BboxElems, MaxLen)}
              \cup {JNull, JInt(1), JStr("s"), JObj(EmptyMap)}

BboxObjects ==
    {With([type |-> JStr("Point")], more) : more \in OtherKeys}
    \cup {With([bbox |-> v], more) : v \in BboxValues, more \in OtherKeys}

PropertiesValues == {JNull, JObj(EmptyMap), JObj([a |-> JInt(1)]), JInt(1), JStr("s"),
                     JArr(<<>>), JBool(FALSE)}

PropertiesObjects ==
    {With([geometry |-> JNull], more) : more \in OtherKeys}
    \cup {With([properties |-> v], more) : v \in PropertiesValues, more \in OtherKeys}

IdValues == {JInt(7), JFloat(2), JStr("a"), JNull, JBool(TRUE), JArr(<<>>)}

IdObjects ==
    OtherKeys \cup {With([id |-> v], more) : v \in IdValues, more \in OtherKeys}

GeometryValues == GeomElems \cup {JNull, JArr(<<>>), JStr("Point"), JBool(TRUE),
                                  JArr(<<JObj(PointObj)>>)}

GeometryObjects ==
    OtherKeys \cup {With([geometry |-> v], more) : v \in GeometryValues, more \in OtherKeys}

CoordsObjects ==
    {EmptyMap, [custom |-> JInt(1)]}
    \cup {[coordinates |-> c, custom |-> JInt(1)] :
            c \in {P12, Line12, JArr(<<Line12>>), JArr(<<JArr(<<Line12>>)>>), JInt(5),
                   JArr(<<>>)}}

\* top-level objects: every tag, recognised or not, over bodies that hold
\* the keys of every object kind
AllTags == GeometryTags \cup {"Feature", "FeatureCollection", "Circle", "point",
                              "FEATURE", "Points", ""}

FullBody == [coordinates |-> P12, geometries |-> JArr(<<JObj(PointObj)>>),
             geometry |-> JNull, properties |-> JNull,
             features |-> JArr(<<JObj(Feature1)>>)]

GoodCoords(tag) ==
    CASE tag \in {"MultiPoint", "LineString"} -> Line12
      [] tag \in {"MultiLineString", "Polygon"} -> JArr(<<Line12, JArr(<<>>)>>)
      [] tag = "MultiPolygon" -> JArr(<<JArr(<<Line12>>)>>)
      [] OTHER -> P12

TopObjects ==
    {With([type |-> JStr(tag)], more) : tag \in AllTags, more \in OtherKeys}
    \cup {With([type |-> JStr(tag)], FullBody) : tag \in AllTags}
    \cup {With([type |-> JStr(tag), coordinates |-> GoodCoords(tag)], more) :
            tag \in AllTags, more \in OtherKeys}
    \cup {g.o : g \in GeomElems \ {JInt(5)}}
    \cup {f.o : f \in FeatureElems \ {JInt(5)}}
    \cup {With([type |-> JStr("FeatureCollection"),
                features |-> JArr(<<JObj(Feature2), JObj(Feature1)>>)], more) :
            more \in OtherKeys}
    \cup {With([type |-> JStr("GeometryCollection"),
                geometries |-> JArr(<<JObj(LineObj), JObj(PointObj)>>)], more) :
            more \in OtherKeys}
    \cup TypeObjects

TopValues ==
    {JObj(o) : o \in TopObjects}
    \cup {JNull, JBool(TRUE), JInt(1), JFloat(2), JStr("Point"), JArr(<<>>),
          JArr(<<JObj(PointObj)>>)}

\* input texts: every token sequence up to MaxTextLen over the basic
\* tokens, and the texts of a Point, a Feature and an untagged object
BasicTokens == {"{", "}", "[", "]", ",", "1", "null"}

SampleTexts ==
    { <<"{", "'type'", ":", "'Point'", ",", "'coordinates'", ":", "[", "1", ",", "2.0",
        "]", "}">>,
      <<"{", "'type'", ":", "'Feature'", ",", "'geometry'", ":", "null", ",",
        "'properties'", ":", "null", "}">>,
      <<"{", "'type'", ":", "'Feature'", ",", "'geometry'", ":", "null", "}">>,
      <<"{", "'coordinates'", ":", "[", "1", ",", "2", "]", "}">>,
      <<"{", "'type'", ":", "1", "}">>,
      <<"{", "'type'", ":", "'Point'", ",", "}">>,
      <<"[", "{", "'type'", ":", "'Point'", "}", "]">>,
      <<"'Point'">>, <<"true">>, <<"2.0">>, <<"nul">> }

Texts == SeqsUpTo(BasicTokens, MaxTextLen) \cup SampleTexts

(***************************************************************************)
(* Typed values with no foreign members, for the encode/decode round trip  *)
(***************************************************************************)
TPos == {<<1, 2>>, <<2, 1, 3>>, <<>>}

TBbox == {None, Some(<<>>), Some(<<1, 2, 1, 2>>)}

TRing == <<<<1, 2>>, <<2, 1, 3>>>>

TRep1 == {<<>>, <<<<1, 2>>>>, TRing}

TRep2 == {<<>>, <<<<>>>>, <<TRing>>}

Geom(value, bbox) == [bbox |-> bbox, value |-> value, foreign_members |-> None]

TCoordValues ==
    {[type |-> "Point", p0 |-> p] : p \in TPos}
    \cup {[type |-> tag, p1 |-> a] : tag \in {"MultiPoint", "LineString"},
                                     a \in SeqsUpTo(TPos, MaxLen)}
    \cup {[type |-> tag, p2 |-> a] : tag \in {"MultiLineString", "Polygon"},
                                     a \in SeqsUpTo(TRep1, MaxLen)}
    \cup {[type |-> "MultiPolygon", p3 |-> a] : a \in SeqsUpTo(TRep2, MaxLen)}

TPoint == Geom([type |-> "Point", p0 |-> <<1, 2>>], None)

TGeomReps ==
    { TPoint,
      Geom([type |-> "LineString", p1 |-> TRing], Some(<<1, 2, 1, 2>>)),
      Geom([type |-> "MultiPolygon", p3 |-> <<<<TRing>>>>], None) }

Collection(a, bbox) == Geom([type |-> "GeometryCollection", geometries |-> a], bbox)

TCollections1 ==
    {Collection(a, b) : a \in SeqsUpTo(TGeomReps, MaxLen), b \in {None, Some(<<1, 2>>)}}

TCollections2 ==
    {Collection(a, None) :
       a \in SeqsUpTo(TGeomReps \cup {Collection(<<>>, None), Collection(<<TPoint>>, None)},
                      MaxLen)}

TCollections3 == {Collection(<<g>>, None) : g \in TCollections2}

TGeometries ==
    {Geom(v, b) : v \in TCoordValues, b \in TBbox}
    \cup TCollections1 \cup TCollections2 \cup TCollections3

TIds == {None, Some([id |-> "Number", n |-> JInt(7)]), Some([id |-> "Number", n |-> JFloat(2)]),
         Some([id |-> "String", s |-> "a"])}

TProperties == {None, Some(EmptyMap), Some([a |-> JInt(1)])}

TFeatures ==
    {[bbox |-> b, geometry |-> g, id |-> i, properties |-> pr, foreign_members |-> None] :
       b \in {None, Some(<<1, 2>>)},
       g \in {None} \cup {Some(x) : x \in TGeomReps \cup {Collection(<<TPoint>>, None)}},
       i \in TIds, pr \in TProperties}

TFeatureReps ==
    { [bbox |-> None, geometry |-> None, id |-> None, properties |-> None,
       foreign_members |-> None],
      [bbox |-> Some(<<1, 2>>), geometry |-> Some(TPoint),
       id |-> Some([id |-> "Number", n |-> JInt(7)]), properties |-> Some(EmptyMap),
       foreign_members |-> None],
      [bbox |-> None, geometry |-> Some(Collection(<<TPoint>>, None)),
       id |-> Some([id |-> "String", s |-> "a"]), properties |-> Some([a |-> JInt(1)]),
       foreign_members |-> None] }

TFeatureCollections ==
    {[bbox |-> b, features |-> a, foreign_members |-> None] :
       b \in {None, Some(<<1, 2>>)}, a \in SeqsUpTo(TFeatureReps, MaxLen)}

GeoJsonValues ==
    {[kind |-> "Geometry", x |-> g] : g \in TGeometries}
    \cup {[kind |-> "Feature", x |-> f] : f \in TFeatures}
    \cup {[kind |-> "FeatureCollection", x |-> fc] : fc \in TFeatureCollections}

(***************************************************************************)
(* The state machine: a call of one entry point on one input, then Return. *)
(* `calls` lists the decoders a top-level dispatch invoked.  Each action   *)
(* evaluates its function once and records the value it returns.           *)
(***************************************************************************)
Init ==
    /\ pc = "idle"
    /\ op = "none"
    /\ input = JNull
    /\ result = JNull
    /\ calls = <<>>

ExpectType ==
    \E object \in TypeObjects :
        LET ExpectTypeReturns(out, invoked) ==
              /\ pc = "idle"
              /\ pc' = "done"
              /\ op' = "expect_type"
              /\ input' = object
              /\ result' = out
              /\ calls' = invoked
        IN  ExpectTypeReturns(expect_type(object), <<>>)

GetBbox ==
    \E object \in BboxObjects :
        LET GetBboxReturns(out, invoked) ==
              /\ pc = "idle"
              /\ pc' = "done"
              /\ op' = "get_bbox"
              /\ input' = object
              /\ result' = out
              /\ calls' = invoked
        IN  GetBboxReturns(get_bbox(object), <<>>)

GetProperties ==
    \E object \in PropertiesObjects :
        LET GetPropertiesReturns(out, invoked) ==
              /\ pc = "idle"
              /\ pc' = "done"
              /\ op' = "get_properties"
              /\ input' = object
              /\ result' = out
              /\ calls' = invoked
        IN  GetPropertiesReturns(get_properties(object), <<>>)

GetId ==
    \E object \in IdObjects :
        LET GetIdReturns(out, invoked) ==
              /\ pc = "idle"
              /\ pc' = "done"
              /\ op' = "get_id"
              /\ input' = object
              /\ result' = out
              /\ calls' = invoked
        IN  GetIdReturns(get_id(object), <<>>)

GetGeometry ==
    \E object \in GeometryObjects :
        LET GetGeometryReturns(out, invoked) ==
              /\ pc = "idle"
              /\ pc' = "done"
              /\ op' = "get_geometry"
              /\ input' = object
              /\ result' = out
              /\ calls' = invoked
        IN  GetGeometryReturns(get_geometry(object), <<>>)

GetGeometries ==
    \E object \in GeometriesObjects :
        LET GetGeometriesReturns(out, invoked) ==
              /\ pc = "idle"
              /\ pc' = "done"
              /\ op' = "get_geometries"
              /\ input' = object
              /\ result' = out
              /\ calls' = invoked
        IN  GetGeometriesReturns(get_geometries(object), <<>>)

GetFeatures ==
    \E object \in FeaturesObjects :
        LET GetFeaturesReturns(out, invoked) ==
              /\ pc = "idle"
              /\ pc' = "done"
              /\ op' = "get_features"
              /\ input' = object
              /\ result' = out
              /\ calls' = invoked
        IN  GetFeaturesReturns(get_features(object), <<>>)

GetCoordsOnePos ==
    \E object \in CoordsObjects :
        LET GetCoordsOnePosReturns(out, invoked) ==
              /\ pc = "idle"
              /\ pc' = "done"
              /\ op' = "get_coords_one_pos"
              /\ input' = object
              /\ result' = out
              /\ calls' = invoked
        IN  GetCoordsOnePosReturns(get_coords_one_pos(object), <<>>)

GetCoords1d ==
    \E object \in CoordsObjects :
        LET GetCoords1dReturns(out, invoked) ==
              /\ pc = "idle"
              /\ pc' = "done"
              /\ op' = "get_coords_1d_pos"
              /\ input' = object
              /\ result' = out
              /\ calls' = invoked
        IN  GetCoords1dReturns(get_coords_1d_pos(object), <<>>)

GetCoords2d ==
    \E object \in CoordsObjects :
        LET GetCoords2dReturns(out, invoked) ==
              /\ pc = "idle"
              /\ pc' = "done"
              /\ op' = "get_coords_2d_pos"
              /\ input' = object
              /\ result' = out
              /\ calls' = invoked
        IN  GetCoords2dReturns(get_coords_2d_pos(object), <<>>)

GetCoords3d ==
    \E object \in CoordsObjects :
        LET GetCoords3dReturns(out, invoked) ==
              /\ pc = "idle"
              /\ pc' = "done"
              /\ op' = "get_coords_3d_pos"
              /\ input' = object
              /\ result' = out
              /\ calls' = invoked
        IN  GetCoords3dReturns(get_coords_3d_pos(object), <<>>)

JsonTo1d ==
    \E json \in Coords1d :
        LET JsonTo1dReturns(out, invoked) ==
              /\ pc = "idle"
              /\ pc' = "done"
              /\ op' = "json_to_1d_positions"
              /\ input' = json
              /\ result' = out
              /\ calls' = invoked
        IN  JsonTo1dReturns(json_to_1d_positions(json), <<>>)

JsonTo2d ==
    \E json \in Coords2d :
        LET JsonTo2dReturns(out, invoked) ==
              /\ pc = "idle"
              /\ pc' = "done"
              /\ op' = "json_to_2d_positions"
              /\ input' = json
              /\ result' = out
              /\ calls' = invoked
        IN  JsonTo2dReturns(json_to_2d_positions(json), <<>>)

JsonTo3d ==
    \E json \in Coords3d :
        LET JsonTo3dReturns(out, invoked) ==
              /\ pc = "idle"
              /\ pc' = "done"
              /\ op' = "json_to_3d_positions"
              /\ input' = json
              /\ result' = out
              /\ calls' = invoked
        IN  JsonTo3dReturns(json_to_3d_positions(json), <<>>)

FromJsonObject ==
    \E object \in TopObjects :
        LET FromJsonObjectReturns(out, invoked) ==
              /\ pc = "idle"
              /\ pc' = "done"
              /\ op' = "from_json_object"
              /\ input' = object
              /\ result' = out
              /\ calls' = invoked
        IN  FromJsonObjectReturns(from_json_object(object), dispatch_calls(object))

TryFromObject ==
    \E object \in TopObjects :
        LET TryFromObjectReturns(out, invoked) ==
              /\ pc = "idle"
              /\ pc' = "done"
              /\ op' = "try_from_object"
              /\ input' = object
              /\ result' = out
              /\ calls' = invoked
        IN  TryFromObjectReturns(try_from_object(object), dispatch_calls(object))

TryFromValue ==
    \E value \in TopValues :
        LET TryFromValueReturns(out, invoked) ==
              /\ pc = "idle"
              /\ pc' = "done"
              /\ op' = "try_from_value"
              /\ input' = value
              /\ result' = out
              /\ calls' = invoked
        IN  TryFromValueReturns(try_from_value(value), <<>>)

FromStr ==
    \E s \in Texts :
        LET FromStrReturns(out, invoked) ==
              /\ pc = "idle"
              /\ pc' = "done"
              /\ op' = "from_str"
              /\ input' = s
              /\ result' = out
              /\ calls' = invoked
        IN  FromStrReturns(from_str(s), <<>>)

\* encode a typed value and decode the object through the dispatch
RoundTrip ==
    \E v \in GeoJsonValues :
        LET RoundTripReturns(out, invoked) ==
              /\ pc = "idle"
              /\ pc' = "done"
              /\ op' = "round_trip"
              /\ input' = v
              /\ result' = out
              /\ calls' = invoked
        IN  RoundTripReturns(try_from_object(GeoJson_to_json_object(v)), <<>>)

Return ==
    /\ pc = "done"
    /\ pc' = "idle"
    /\ op' = "none"
    /\ input' = JNull
    /\ result' = JNull
    /\ calls' = <<>>

Next ==
    \/ ExpectType
    \/ GetBbox
    \/ GetProperties
    \/ GetId
    \/ GetGeometry
    \/ GetGeometries
    \/ GetFeatures
    \/ GetCoordsOnePos
    \/ GetCoords1d
    \/ GetCoords2d
    \/ GetCoords3d
    \/ JsonTo1d
    \/ JsonTo2d
    \/ JsonTo3d
    \/ FromJsonObject
    \/ TryFromObject
    \/ TryFromValue
    \/ FromStr
    \/ RoundTrip
    \/ Return

Spec == Init /\ [][Next]_vars

(***************************************************************************)
(* Properties                                                              *)
(***************************************************************************)
Done(names) == pc = "done" /\ op \in names

DispatchOps == {"from_json_object", "try_from_object"}

NoStringType(object) == "type" \notin DOMAIN object \/ object["type"].t # "str"

\* C1, as stated: wherever the type tag is read (the top-level dispatch and
\* expect_type), an object without a `type` key and an object whose `type`
\* is not a string both fail with ExpectedProperty("type").
C1_AsStated ==
    (Done(DispatchOps \cup {"expect_type"}) /\ NoStringType(input))
        => (~result.ok /\ result.e = ExpectedProperty("type"))

\* C1, amended: the top-level dispatch fails with ExpectedProperty("type")
\* when `type` is absent or not a string; expect_type fails with
\* ExpectedProperty("type") when `type` is absent and with
\* ExpectedStringValue when it is present but not a string.
C1_TypeTagErrors ==
    /\ (Done(DispatchOps) /\ NoStringType(input))
         => (~result.ok /\ result.e = ExpectedProperty("type"))
    /\ (Done({"expect_type"}) /\ "type" \notin DOMAIN input)
         => (~result.ok /\ result.e = ExpectedProperty("type"))
    /\ (Done({"expect_type"}) /\ "type" \in DOMAIN input /\ input["type"].t # "str")
         => (~result.ok /\ result.e = E("ExpectedStringValue"))

C1_Witness ==
    /\ Done({"expect_type"})
    /\ "type" \in DOMAIN input
    /\ input["type"] = JInt(1)
    /\ ~result.ok
    /\ result.e = E("ExpectedStringValue")

NineTags == {"Point", "MultiPoint", "LineString", "MultiLineString", "Polygon",
             "MultiPolygon", "GeometryCollection", "Feature", "FeatureCollection"}

KindOfTag(tag) ==
    IF tag \in {"Feature", "FeatureCollection"} THEN tag ELSE "Geometry"

\* C2: a top-level dispatch on an object whose `type` is a string fails with
\* the unknown-type error, invoking no decoder, when the string is not one of
\* the nine tags; otherwise it invokes exactly the decoder of the tag's kind
\* on the object with its `type` key still present, and a successful result
\* is of the kind (and, for a geometry, the variant) the tag names.
C2_Dispatch ==
    (Done(DispatchOps) /\ ~NoStringType(input)) =>
        LET tag == input["type"].s
        IN  IF tag \notin NineTags
            THEN /\ ~result.ok
                 /\ result.e = E("GeoJsonUnknownType")
                 /\ calls = <<>>
            ELSE /\ Len(calls) = 1
                 /\ calls[1].decoder = KindOfTag(tag)
                 /\ calls[1].arg = input
                 /\ "type" \in DOMAIN calls[1].arg
                 /\ result.ok =>
                      /\ result.v.kind = KindOfTag(tag)
                      /\ KindOfTag(tag) = "Geometry" => result.v.x.value.type = tag

C2_Witness ==
    /\ Done({"from_json_object"})
    /\ ~NoStringType(input)
    /\ input["type"].s = "FeatureCollection"
    /\ Len(calls) = 1
    /\ calls[1].arg = input
    /\ result.ok
    /\ result.v.kind = "FeatureCollection"
    /\ Len(result.v.x.features) = 2

\* C3: encoding a Geometry, Feature or FeatureCollection value without
\* foreign members and decoding the object through the top-level dispatch
\* yields the value itself, of the same kind.
C3_RoundTrip ==
    Done({"round_trip"}) => (result.ok /\ result.v = input)

C3_Witness ==
    /\ Done({"round_trip"})
    /\ input.kind = "Geometry"
    /\ input.x = Collection(<<Collection(<<Collection(<<TPoint>>, None)>>, None)>>, None)
    /\ result.ok
    /\ result.v = input

RecognisedKeys(geojson) ==
    CASE geojson.kind = "Feature" -> {"type", "id", "properties", "geometry", "bbox"}
      [] geojson.kind = "FeatureCollection" -> {"type", "features", "bbox"}
      [] OTHER -> IF geojson.x.value.type = "GeometryCollection"
                  THEN {"type", "geometries", "bbox"}
                  ELSE {"type", "coordinates", "bbox"}

Residue(object, keys) == [k \in (DOMAIN object) \ keys |-> object[k]]

OwnKey(name) ==
    CASE name = "expect_type" -> "type"
      [] name = "get_bbox" -> "bbox"
      [] name = "get_properties" -> "properties"
      [] name = "get_id" -> "id"
      [] name = "get_geometry" -> "geometry"
      [] name = "get_geometries" -> "geometries"
      [] name = "get_features" -> "features"
      [] OTHER -> "coordinates"

ExtractorOps == {"expect_type", "get_bbox", "get_properties", "get_id", "get_geometry",
                 "get_geometries", "get_features", "get_coords_one_pos",
                 "get_coords_1d_pos", "get_coords_2d_pos", "get_coords_3d_pos"}

\* C4: the foreign members of a decoded object are exactly the keys of the
\* input object that its kind does not recognise, with their values; they
\* are None when no such key remains, never an empty mapping.  Every
\* extractor leaves the object without its own key and otherwise unchanged.
C4_ForeignMembers ==
    /\ (Done(DispatchOps) /\ result.ok) =>
          LET rest == Residue(input, RecognisedKeys(result.v))
              fm == result.v.x.foreign_members
          IN  /\ DOMAIN rest = {} => fm = None
              /\ DOMAIN rest # {} => (fm.some /\ fm.x = rest)
              /\ fm.some => DOMAIN fm.x # {}
    /\ Done(ExtractorOps) => result.obj = Residue(input, {OwnKey(op)})

C4_Witness ==
    /\ Done({"from_json_object"})
    /\ input = Feature3
    /\ result.ok
    /\ result.v.kind = "Feature"
    /\ result.v.x.foreign_members = Some([custom |-> JInt(1)])

\* C5: get_properties removes `properties` and returns None for null,
\* Some(mapping) for an object (an empty object stays Some(empty)),
\* PropertiesExpectedObjectOrNull for any other value and
\* ExpectedProperty("properties") when the key is absent.  So a Feature with
\* null properties and null geometry decodes, with properties None, and a
\* Feature without a `properties` key fails.
C5_Properties ==
    /\ Done({"get_properties"}) =>
          IF "properties" \notin DOMAIN input
          THEN ~result.ok /\ result.e = ExpectedProperty("properties")
          ELSE LET v == input["properties"]
               IN  /\ "properties" \notin DOMAIN result.obj
                   /\ v.t = "null" => (result.ok /\ result.v = None)
                   /\ v.t = "obj" => (result.ok /\ result.v = Some(v.o))
                   /\ v.t \notin {"null", "obj"} =>
                        (~result.ok /\ result.e = E("PropertiesExpectedObjectOrNull"))
    /\ (Done(DispatchOps) /\ input = Feature1) =>
          /\ result.ok
          /\ result.v.x.properties = None
          /\ result.v.x.geometry = None
    /\ (Done(DispatchOps) /\ input = [type |-> JStr("Feature"), geometry |-> JNull]) =>
          (~result.ok /\ result.e = ExpectedProperty("properties"))

C5_Witness ==
    /\ Done({"get_properties"})
    /\ "properties" \in DOMAIN input
    /\ input["properties"] = JObj(EmptyMap)
    /\ result.ok
    /\ result.v = Some(EmptyMap)

Min(S) == CHOOSE x \in S : \A y \in S : x <= y

CoordOps == {"json_to_1d_positions", "json_to_2d_positions", "json_to_3d_positions"}

DepthOf(name) ==
    CASE name = "json_to_1d_positions" -> 1
      [] name = "json_to_2d_positions" -> 2
      [] OTHER -> 3

\* `value` is an array nested d levels deep above arrays of numbers
RECURSIVE WellNested(_, _)
WellNested(d, value) ==
    /\ value.t = "arr"
    /\ \A i \in 1..Len(value.a) :
          IF d = 0 THEN value.a[i].t = "num" ELSE WellNested(d - 1, value.a[i])

\* the nested sequences of a well-nested value: same lengths, same order
RECURSIVE Shape(_, _)
Shape(d, value) ==
    [i \in 1..Len(value.a) |-> IF d = 0 THEN value.a[i].n ELSE Shape(d - 1, value.a[i])]

\* a non-array at one of the d outer levels or where a position is expected
RECURSIVE NonArrayDefect(_, _)
NonArrayDefect(d, value) ==
    \/ value.t # "arr"
    \/ d > 0 /\ \E i \in 1..Len(value.a) : NonArrayDefect(d - 1, value.a[i])

\* an array where a number of a position is expected
RECURSIVE DeeperDefect(_, _)
DeeperDefect(d, value) ==
    /\ value.t = "arr"
    /\ \E i \in 1..Len(value.a) :
          IF d = 0 THEN value.a[i].t = "arr" ELSE DeeperDefect(d - 1, value.a[i])

\* the error of the first defect in left-to-right, depth-first order
RECURSIVE FirstDefect(_, _)
FirstDefect(d, value) ==
    IF value.t # "arr" THEN "ExpectedArrayValue"
    ELSE LET at(i) == IF d > 0 THEN FirstDefect(d - 1, value.a[i])
                      ELSE IF value.a[i].t = "num" THEN "none" ELSE "ExpectedF64Value"
             bad == {i \in 1..Len(value.a) : at(i) # "none"}
         IN  IF bad = {} THEN "none" ELSE at(Min(bad))

\* C6, as stated: json_to_{d}d_positions succeeds exactly on arrays nested
\* d levels above position arrays, with a result of the same shape; a
\* non-array at an outer level or in place of a position makes it fail with
\* ExpectedArrayValue, and nesting deeper than d with ExpectedF64Value.
C6_AsStated ==
    Done(CoordOps) =>
        LET d == DepthOf(op)
        IN  /\ result.ok <=> WellNested(d, input)
            /\ result.ok => result.v = Shape(d, input)
            /\ NonArrayDefect(d, input) =>
                 (~result.ok /\ result.e = E("ExpectedArrayValue"))
            /\ DeeperDefect(d, input) =>
                 (~result.ok /\ result.e = E("ExpectedF64Value"))

\* C6, amended: json_to_{d}d_positions succeeds exactly on arrays nested d
\* levels above position arrays, with a result of the same shape, lengths
\* and order; otherwise it fails with the error of the first defect in
\* left-to-right, depth-first order: ExpectedArrayValue for a non-array at
\* an outer level or in place of a position, ExpectedF64Value for a
\* non-number (such as an array: nesting deeper than d) in a position.
C6_DepthCorrectness ==
    Done(CoordOps) =>
        LET d == DepthOf(op)
        IN  /\ result.ok <=> WellNested(d, input)
            /\ result.ok => result.v = Shape(d, input)
            /\ ~result.ok => result.e = E(FirstDefect(d, input))
            /\ (NonArrayDefect(d, input) /\ FirstDefect(d, input) = "ExpectedArrayValue")
                 => (~result.ok /\ result.e = E("ExpectedArrayValue"))
            /\ (DeeperDefect(d, input) /\ FirstDefect(d, input) = "ExpectedF64Value")
                 => (~result.ok /\ result.e = E("ExpectedF64Value"))

C6_Witness ==
    /\ Done({"json_to_3d_positions"})
    /\ input = JArr(<<JArr(<<JArr(<<P12, P21>>)>>)>>)
    /\ result.ok
    /\ result.v = <<<<<<<<1, 2>>, <<2, 1>>>>>>>>

\* C7: on both entry points MalformedJson is reported only for a text that
\* fails to parse as any JSON value, and a top-level value that is valid
\* JSON but not an object is reported as GeoJsonExpectedObject.
C7_ErrorAttribution ==
    /\ Done({"try_from_value"}) =>
          /\ input.t # "obj" => (~result.ok /\ result.e = E("GeoJsonExpectedObject"))
          /\ ~result.ok => result.e # E("MalformedJson")
    /\ Done({"from_str"}) =>
          LET parsed == serde_json_from_str(input)
          IN  /\ (~result.ok /\ result.e = E("MalformedJson")) => ~parsed.ok
              /\ (parsed.ok /\ parsed.v.t # "obj") =>
                   (~result.ok /\ result.e = E("GeoJsonExpectedObject"))

\* C8: get_geometry removes `geometry`; null yields None, an object yields
\* Some of its decode as a Geometry or that decode's error unchanged, any
\* other value fails with FeatureInvalidGeometryValue and an absent key
\* with ExpectedProperty("geometry").
C8_Geometry ==
    Done({"get_geometry"}) =>
        IF "geometry" \notin DOMAIN input
        THEN ~result.ok /\ result.e = ExpectedProperty("geometry")
        ELSE LET v == input["geometry"]
             IN  /\ "geometry" \notin DOMAIN result.obj
                 /\ v.t = "null" => (result.ok /\ result.v = None)
                 /\ v.t = "obj" =>
                      LET nested == Geometry_from_json_object(v.o)
                      IN  IF nested.ok THEN result.ok /\ result.v = Some(nested.v)
                          ELSE ~result.ok /\ result.e = nested.e
                 /\ v.t \notin {"null", "obj"} =>
                      (~result.ok /\ result.e = E("FeatureInvalidGeometryValue"))

C8_Witness ==
    /\ Done({"get_geometry"})
    /\ "geometry" \in DOMAIN input
    /\ input["geometry"] = JObj([type |-> JStr("Point")])
    /\ ~result.ok
    /\ result.e = ExpectedProperty("coordinates")
    /\ "geometry" \notin DOMAIN result.obj

\* C9: get_bbox returns None, leaving the object as it is, when `bbox` is
\* absent; otherwise it removes the key and fails with BboxExpectedArray
\* for a non-array, with BboxExpectedNumericValues when some element is not
\* a number, and else returns the elements in order, whatever their count.
C9_Bbox ==
    Done({"get_bbox"}) =>
        IF "bbox" \notin DOMAIN input
        THEN result.ok /\ result.v = None /\ result.obj = input
        ELSE LET v == input["bbox"]
             IN  /\ "bbox" \notin DOMAIN result.obj
                 /\ v.t # "arr" => (~result.ok /\ result.e = E("BboxExpectedArray"))
                 /\ (v.t = "arr" /\ \E i \in 1..Len(v.a) : v.a[i].t # "num") =>
                      (~result.ok /\ result.e = E("BboxExpectedNumericValues"))
                 /\ (v.t = "arr" /\ \A i \in 1..Len(v.a) : v.a[i].t = "num") =>
                      /\ result.ok
                      /\ result.v = Some([i \in 1..Len(v.a) |-> v.a[i].n])

C9_Witness ==
    /\ Done({"get_bbox"})
    /\ "bbox" \in DOMAIN input
    /\ input["bbox"] = JArr(<<JFloat(2)>>)
    /\ result.ok
    /\ result.v = Some(<<2>>)

SeqOps == {"get_geometries", "get_features"} \cup CoordOps

\* the value a sequence decoder iterates over, when the object has its key
HasSeqInput == op \in CoordOps \/ OwnKey(op) \in DOMAIN input

SeqInput == IF op \in CoordOps THEN input ELSE input[OwnKey(op)]

\* the decode of one element of the array of the current call
ElemResult(x) ==
    CASE op = "get_geometries" ->
           IF x.t # "obj" THEN PErr(E("ExpectedObjectValue"))
           ELSE Geometry_from_json_object(x.o)
      [] op = "get_features" ->
           IF x.t # "obj" THEN PErr(E("ExpectedObjectValue"))
           ELSE Feature_from_json_object(x.o)
      [] op = "json_to_1d_positions" -> Position_from_json_value(x)
      [] op = "json_to_2d_positions" -> json_to_1d_positions(x)
      [] OTHER -> json_to_2d_positions(x)

\* the current call made again on the array `a`
Again(a) ==
    CASE op = "get_geometries" -> get_geometries([geometries |-> JArr(a)])
      [] op = "get_features" -> get_features([features |-> JArr(a)])
      [] op = "json_to_1d_positions" -> json_to_1d_positions(JArr(a))
      [] op = "json_to_2d_positions" -> json_to_2d_positions(JArr(a))
      [] OTHER -> json_to_3d_positions(JArr(a))

\* C10: a sequence decoder fails with ExpectedArrayValue on a non-array;
\* on an array it returns the decodes of the elements, in order and in the
\* same number, when all are valid, and otherwise exactly the error of the
\* lowest-index invalid element (ExpectedObjectValue for a non-object
\* element of `geometries` or `features`), with no sequence returned and
\* whatever follows that element.
C10_FailFast ==
    (Done(SeqOps) /\ HasSeqInput) =>
        IF SeqInput.t # "arr"
        THEN ~result.ok /\ result.e = E("ExpectedArrayValue")
        ELSE LET a == SeqInput.a
                 bad == {i \in 1..Len(a) : ~ElemResult(a[i]).ok}
             IN  IF bad = {}
                 THEN /\ result.ok
                      /\ Len(result.v) = Len(a)
                      /\ \A i \in 1..Len(a) : result.v[i] = ElemResult(a[i]).v
                 ELSE LET first == Min(bad)
                          cut == Again(SubSeq(a, 1, first))
                      IN  /\ ~result.ok
                          /\ "v" \notin DOMAIN result
                          /\ result.e = ElemResult(a[first]).e
                          /\ ~cut.ok /\ cut.e = result.e

C10_Witness ==
    /\ Done({"get_geometries"})
    /\ input = [geometries |-> JArr(<<JInt(5), JObj([type |-> JStr("Point")])>>)]
    /\ ~result.ok
    /\ result.e = E("ExpectedObjectValue")

====
